---------------------------- MODULE Spec2Model ----------------------------
(***************************************************************************)
(* Model of the rush daemon benchmark client (benches/daemon_client.py)    *)
(* and of the comparative shell benchmark                                  *)
(* (benches/claude_code_benchmark.py).                                     *)
(*                                                                         *)
(* Bytes and characters are their integer codes.  A JSON value is a record *)
(* [t, v]: t = "str" with v the characters, t = "list" with v the items,   *)
(* t = "dict" with v the <<key, value>> pairs in insertion order.          *)
(***************************************************************************)
EXTENDS Integers, Sequences, FiniteSets, TLC

(***************************************************************************)
(* Generic helpers.                                                        *)
(***************************************************************************)
Min(a, b) == IF a <= b THEN a ELSE b

Range(s) == {s[i] : i \in DOMAIN s}

Drop(s, n) == SubSeq(s, n + 1, Len(s))

Take(s, n) == SubSeq(s, 1, Min(n, Len(s)))

(***************************************************************************)
(* struct.pack('<I', n) / struct.unpack('<I', b): 4 bytes, little endian.  *)
(* Values stay below 2^31 here (the model checker's integers), so the top  *)
(* byte stays below 128.                                                   *)
(***************************************************************************)
pack_I(n) ==
    << n % 256, (n \div 256) % 256, (n \div 65536) % 256, (n \div 16777216) % 256 >>

unpack_I(b) == b[1] + 256 * b[2] + 65536 * b[3] + 16777216 * b[4]

(***************************************************************************)
(* json.dumps(msg).encode(): default separators ", " and ": ",             *)
(* ensure_ascii, so the text is ASCII and its UTF-8 bytes are its codes.   *)
(***************************************************************************)
JStr(s) == [t |-> "str", v |-> s]

JList(xs) == [t |-> "list", v |-> xs]

JDict(ps) == [t |-> "dict", v |-> ps]

JNone == [t |-> "none", v |-> <<>>]

QUOTE == 34

BACKSLASH == 92

NEWLINE == 10

LETTER_N == 110

SPACE == 32

COMMA == 44

COLON == 58

LBRACKET == 91

RBRACKET == 93

LBRACE == 123

RBRACE == 125

esc_char(c) ==
    IF c = QUOTE THEN <<BACKSLASH, QUOTE>>
    ELSE IF c = BACKSLASH THEN <<BACKSLASH, BACKSLASH>>
    ELSE IF c = NEWLINE THEN <<BACKSLASH, LETTER_N>>
    ELSE <<c>>

RECURSIVE escape(_)
escape(s) == IF s = <<>> THEN <<>> ELSE esc_char(Head(s)) \o escape(Tail(s))

dumps_str(s) == <<QUOTE>> \o escape(s) \o <<QUOTE>>

RECURSIVE json_dumps(_), dumps_items(_), dumps_pairs(_)
json_dumps(x) ==
    CASE x.t = "str" -> dumps_str(x.v)
      [] x.t = "list" -> <<LBRACKET>> \o dumps_items(x.v) \o <<RBRACKET>>
      [] x.t = "dict" -> <<LBRACE>> \o dumps_pairs(x.v) \o <<RBRACE>>

dumps_items(xs) ==
    IF Len(xs) = 0 THEN <<>>
    ELSE json_dumps(Head(xs))
         \o (IF Len(xs) = 1 THEN <<>> ELSE <<COMMA, SPACE>> \o dumps_items(Tail(xs)))

dumps_pairs(ps) ==
    IF Len(ps) = 0 THEN <<>>
    ELSE dumps_str(Head(ps)[1]) \o <<COLON, SPACE>> \o json_dumps(Head(ps)[2])
         \o (IF Len(ps) = 1 THEN <<>> ELSE <<COMMA, SPACE>> \o dumps_pairs(Tail(ps)))

(***************************************************************************)
(* json.loads(data[4:].decode()): UTF-8 decoding, then the JSON scanner    *)
(* for strings, arrays and objects (numbers and literals are not part of   *)
(* the messages modelled).  A failure is Python's ValueError               *)
(* (UnicodeDecodeError, JSONDecodeError).                                  *)
(***************************************************************************)
ParseFail == [ok |-> FALSE, val |-> JNone, rest |-> <<>>]

ParseOk(x, rest) == [ok |-> TRUE, val |-> x, rest |-> rest]

IsWs(c) == c \in {SPACE, NEWLINE, 9, 13}

RECURSIVE skip_ws(_)
skip_ws(s) == IF Len(s) > 0 /\ IsWs(Head(s)) THEN skip_ws(Tail(s)) ELSE s

\* The escapes the scanner resolves, of those the encoder above can produce.
unesc_char(e) ==
    IF e = QUOTE THEN QUOTE
    ELSE IF e = BACKSLASH THEN BACKSLASH
    ELSE IF e = LETTER_N THEN NEWLINE
    ELSE -1

RECURSIVE scan_string(_, _)
scan_string(s, acc) ==
    IF Len(s) = 0 THEN ParseFail
    ELSE LET c == Head(s) IN
         IF c = QUOTE THEN ParseOk(JStr(acc), Tail(s))
         ELSE IF c = BACKSLASH
              THEN IF Len(s) < 2 \/ unesc_char(s[2]) < 0 THEN ParseFail
                   ELSE scan_string(Drop(s, 2), Append(acc, unesc_char(s[2])))
         ELSE IF c < SPACE THEN ParseFail
         ELSE scan_string(Tail(s), Append(acc, c))

\* dict[key] = value: a repeated key keeps its place and takes the new value.
RECURSIVE dict_set(_, _, _)
dict_set(ps, k, x) ==
    IF Len(ps) = 0 THEN << <<k, x>> >>
    ELSE IF Head(ps)[1] = k THEN << <<k, x>> >> \o Tail(ps)
    ELSE << Head(ps) >> \o dict_set(Tail(ps), k, x)

RECURSIVE parse_value(_), list_items(_, _), dict_items(_, _)
parse_value(s) ==
    IF Len(s) = 0 THEN ParseFail
    ELSE IF Head(s) = QUOTE THEN scan_string(Tail(s), <<>>)
    ELSE IF Head(s) = LBRACKET
         THEN LET t == skip_ws(Tail(s)) IN
              IF Len(t) > 0 /\ Head(t) = RBRACKET THEN ParseOk(JList(<<>>), Tail(t))
              ELSE list_items(t, <<>>)
    ELSE IF Head(s) = LBRACE
         THEN LET t == skip_ws(Tail(s)) IN
              IF Len(t) > 0 /\ Head(t) = RBRACE THEN ParseOk(JDict(<<>>), Tail(t))
              ELSE dict_items(t, <<>>)
    ELSE ParseFail

list_items(s, acc) ==
    LET r == parse_value(s) IN
    IF ~r.ok THEN ParseFail
    ELSE LET t == skip_ws(r.rest) IN
         IF Len(t) = 0 THEN ParseFail
         ELSE IF Head(t) = RBRACKET THEN ParseOk(JList(Append(acc, r.val)), Tail(t))
         ELSE IF Head(t) = COMMA THEN list_items(skip_ws(Tail(t)), Append(acc, r.val))
         ELSE ParseFail

dict_items(s, acc) ==
    IF Len(s) = 0 \/ Head(s) # QUOTE THEN ParseFail
    ELSE LET k == scan_string(Tail(s), <<>>) IN
         IF ~k.ok THEN ParseFail
         ELSE LET t == skip_ws(k.rest) IN
              IF Len(t) = 0 \/ Head(t) # COLON THEN ParseFail
              ELSE LET r == parse_value(skip_ws(Tail(t))) IN
                   IF ~r.ok THEN ParseFail
                   ELSE LET u == skip_ws(r.rest)
                            d == dict_set(acc, k.val.v, r.val)
                        IN IF Len(u) = 0 THEN ParseFail
                           ELSE IF Head(u) = RBRACE THEN ParseOk(JDict(d), Tail(u))
                           ELSE IF Head(u) = COMMA THEN dict_items(skip_ws(Tail(u)), d)
                           ELSE ParseFail

utf8_ok(b) == \A i \in DOMAIN b : b[i] < 128

json_loads(b) ==
    IF ~utf8_ok(b) THEN [ok |-> FALSE, val |-> JNone]
    ELSE LET r == parse_value(skip_ws(b)) IN
         IF r.ok /\ Len(skip_ws(r.rest)) = 0 THEN [ok |-> TRUE, val |-> r.val]
         ELSE [ok |-> FALSE, val |-> JNone]

(***************************************************************************)
(* send_message: the bytes its three sendall calls put on the stream.      *)
(***************************************************************************)
\* Mutant: the length field counts the payload only.
frame_bytes_payload_length(msg, msg_id) ==
    LET payload == json_dumps(msg)
        length == Len(payload)
    IN pack_I(length) \o pack_I(msg_id) \o payload

frame_bytes(msg, msg_id) ==
    LET payload == json_dumps(msg)
        length == Len(payload) + 4
    IN pack_I(length) \o pack_I(msg_id) \o payload


(***************************************************************************)
(* State.                                                                  *)
(*                                                                         *)
(* Framing codec over one stream socket (send_message / recv_message):     *)
(*   wire         bytes written to the stream and not yet received         *)
(*   peer_closed  the writing side has closed: recv on an empty wire       *)
(*                returns b''                                              *)
(*   rpc          position of the reader: "idle" (not in recv_message),    *)
(*                "len" (the first loop), "body" (the second loop and the  *)
(*                decode), "raised" (recv_message raised)                  *)
(*   raw_len, length, data   recv_message's locals                         *)
(*   outcome      what the last ended recv_message call returned or raised *)
(*   ncalls, nwrites   recv_message calls begun, writes made               *)
(* History, kept from the start of the latest recv_message call on:        *)
(*   stream       every byte written that no earlier call received         *)
(*   writes       the writes that begin in stream, each with its offset    *)
(*   consumed     bytes received by the latest call                        *)
(*   bytewise     every recv of the latest call returned a single byte     *)
(***************************************************************************)
VARIABLES wire, peer_closed, rpc, raw_len, length, data, outcome, ncalls, nwrites,
          stream, writes, consumed, bytewise

cvars == << wire, peer_closed, rpc, raw_len, length, data, outcome, ncalls, nwrites,
            stream, writes, consumed, bytewise >>

(***************************************************************************)
(* The benchmark tool (main) and the call it repeats (execute_command):    *)
(*   args_warmup, args_iterations   the parsed --warmup and --iterations   *)
(*   pc           main's position: "warmup", "measure" (the two loops),    *)
(*                "exited"                                                 *)
(*   warm_i, iter_i   completed passes of the two loops                    *)
(*   times        main's list of elapsed times                             *)
(*   exc          the exception propagating out of execute_command, or     *)
(*                "none"                                                   *)
(*   stdout, stderr, exit_status   what the process printed, and its exit  *)
(*                status (-1 while it runs)                                *)
(*   epc          execute_command's position: "none" (not running),        *)
(*                "created", "started", "connected", "sent", "received",   *)
(*                "stopped", "closed"                                      *)
(*   socks        the state of the socket each call created: "created",    *)
(*                "connected", "closed" (sock.close()), "released" (still  *)
(*                open when the process ended)                             *)
(*   now, start, elapsed, result   the clock (time since the call began),  *)
(*                and execute_command's locals                             *)
(*   request, response, resp_closed, responded   the bytes sent on the     *)
(*                current connection, the bytes the daemon answered, and   *)
(*                whether it closed after them                             *)
(* History:                                                                *)
(*   failed_at    the number of the call that raised, or 0                 *)
(*   warm_times   the elapsed times the warmup calls returned              *)
(*   meas_times   the elapsed times the measurement calls returned         *)
(*   events       the steps of the current call, in order                  *)
(*   daemon_sent  the message and id the daemon framed, if it did          *)
(***************************************************************************)
VARIABLES args_warmup, args_iterations, pc, warm_i, iter_i, times, exc,
          stdout, stderr, exit_status,
          epc, socks, now, start, elapsed, result,
          request, response, resp_closed, responded,
          failed_at, warm_times, meas_times, events, daemon_sent

mvars == << args_warmup, args_iterations, pc, warm_i, iter_i, times, exc,
            stdout, stderr, exit_status, failed_at, warm_times, meas_times >>

evars == << epc, socks, now, start, elapsed, result,
            request, response, resp_closed, responded, events, daemon_sent >>

hvars == << mvars, evars >>

(***************************************************************************)
(* The comparative benchmark (claude_code_benchmark.py).  runs and results *)
(* are the fields of ClaudeCodeBenchmark; plan_i, run_i and bench_times    *)
(* are where run_all and run_benchmark stand (which benchmark, which run,  *)
(* the local list times); comparison is what generate_comparison returned  *)
(* to print_report, saved the file save_json wrote, kpc and kexit the      *)
(* process.  attempts is history: what each finished benchmark collected.  *)
(***************************************************************************)
VARIABLES runs, kpc, plan_i, run_i, bench_times, results, comparison, saved,
          kexit, attempts

kvars == << runs, kpc, plan_i, run_i, bench_times, results, comparison, saved,
            kexit, attempts >>

vars == << cvars, hvars, kvars >>

\* The codec at rest: no stream.
CodecIdle ==
    /\ wire = <<>>
    /\ peer_closed = FALSE
    /\ rpc = "idle"
    /\ raw_len = <<>>
    /\ length = 0
    /\ data = <<>>
    /\ outcome = [kind |-> "none", payload |-> JNone, msg_id |-> 0]
    /\ ncalls = 0
    /\ nwrites = 0
    /\ stream = <<>>
    /\ writes = <<>>
    /\ consumed = 0
    /\ bytewise = TRUE

\* What the codec's actions leave alone.
not_codec == << hvars, kvars >>

\* What the benchmark tool's actions leave alone.
not_harness == << cvars, kvars >>

\* What the comparative benchmark's actions leave alone.
not_compare == << cvars, hvars >>

(***************************************************************************)
(* Bounds and input sets of the codec.                                     *)
(***************************************************************************)
\* Frames written to one stream, and recv_message calls made on it.
MaxFrames == 2

K_a == <<97>>

K_g == <<103>>

\* {}, {"a": "\"\\\n"}, {"g": ["c", {"": ""}]}
Messages ==
    { JDict(<<>>),
      JDict(<< <<K_a, JStr(<<QUOTE, BACKSLASH, NEWLINE>>)>> >>),
      JDict(<< <<K_g, JList(<<JStr(<<99>>), JDict(<< <<<<>>, JStr(<<>>)>> >>)>>)>> >>) }

\* Correlation ids: the default 1, and 0x7F0203FF (four different bytes).
Ids == {1, 2130838527}

\* The (msg, msg_id) pairs send_message is called with: every message
\* with the default id, and every id with the message of escapes.
Calls ==
    (Messages \X {1})
      \cup ({JDict(<< <<K_a, JStr(<<QUOTE, BACKSLASH, NEWLINE>>)>> >>)} \X Ids)

\* Frames a peer may write that send_message would not: declared lengths
\* 0 and 3, a payload that is not JSON, one that is not UTF-8, and JSON in
\* another layout (no spaces, a repeated key).
RawFrames ==
    { pack_I(0),
      pack_I(3) \o <<1, 0, 0>>,
      pack_I(5) \o pack_I(1) \o <<LBRACE>>,
      pack_I(5) \o pack_I(1) \o <<255>>,
      pack_I(21) \o pack_I(2)
        \o <<LBRACE, QUOTE, 97, QUOTE, COLON, QUOTE, 98, QUOTE, COMMA,
             QUOTE, 97, QUOTE, COLON, QUOTE, 99, QUOTE, RBRACE>> }

(***************************************************************************)
(* recv_message, lines 51-54: the correlation id and the payload of a      *)
(* complete body.  struct.unpack raises struct.error unless data[:4] has   *)
(* 4 bytes; json.loads raises ValueError.                                  *)
(***************************************************************************)
Returned(payload, msg_id) == [kind |-> "ok", payload |-> payload, msg_id |-> msg_id]

Raised(e) == [kind |-> e, payload |-> JNone, msg_id |-> 0]

Blocked == [kind |-> "blocked", payload |-> JNone, msg_id |-> 0]

NoOutcome == [kind |-> "none", payload |-> JNone, msg_id |-> 0]

decode_body(d) ==
    IF Len(Take(d, 4)) # 4 THEN Raised("struct.error")
    ELSE LET msg_id == unpack_I(Take(d, 4))
             payload == json_loads(Drop(d, 4))
         IN IF payload.ok THEN Returned(payload.val, msg_id)
            ELSE Raised("ValueError")

(***************************************************************************)
(* recv_message when every recv returns all it asked for (the stream       *)
(* holds bytes b and then, if closed, ends): the outcome and the number of *)
(* bytes taken from the stream.                                            *)
(***************************************************************************)
recv_whole(b, closed) ==
    IF Len(b) < 4
    THEN [out |-> IF closed THEN Raised("ConnectionError") ELSE Blocked, used |-> Len(b)]
    ELSE LET len == unpack_I(Take(b, 4))
             body == Drop(b, 4)
         IN IF Len(body) < len
            THEN [out |-> IF closed THEN Raised("ConnectionError") ELSE Blocked,
                  used |-> Len(b)]
            ELSE [out |-> decode_body(Take(body, len)), used |-> 4 + len]

(***************************************************************************)
(* The writing side of the stream.  Nothing more is written once the       *)
(* reader has raised: its caller gives the socket up.                      *)
(***************************************************************************)
Write(b, entry) ==
    /\ ~peer_closed
    /\ rpc # "raised"
    /\ nwrites < MaxFrames
    /\ nwrites' = nwrites + 1
    /\ wire' = wire \o b
    /\ stream' = stream \o b
    /\ writes' = Append(writes, entry)

\* send_message(sock, msg, msg_id): three sendall calls.
SendMessage ==
    \E c \in Calls :
        /\ Write(frame_bytes(c[1], c[2]),
                 [kind |-> "msg", msg |-> c[1], msg_id |-> c[2], at |-> Len(stream)])
        /\ UNCHANGED << peer_closed, rpc, raw_len, length, data, outcome, ncalls,
                        consumed, bytewise >>
        /\ UNCHANGED not_codec

\* A peer writing a frame of its own making.
PeerRaw ==
    \E b \in RawFrames :
        /\ Write(b, [kind |-> "raw", msg |-> JNone, msg_id |-> 0, at |-> Len(stream)])
        /\ UNCHANGED << peer_closed, rpc, raw_len, length, data, outcome, ncalls,
                        consumed, bytewise >>
        /\ UNCHANGED not_codec

\* A peer that closes after the first k bytes of a frame.
PeerTruncated ==
    \E c \in Calls :
        \E k \in 1 .. (Len(frame_bytes(c[1], c[2])) - 1) :
            /\ Write(Take(frame_bytes(c[1], c[2]), k),
                     [kind |-> "cut", msg |-> c[1], msg_id |-> c[2], at |-> Len(stream)])
            /\ peer_closed' = TRUE
            /\ UNCHANGED << rpc, raw_len, length, data, outcome, ncalls, consumed, bytewise >>
            /\ UNCHANGED not_codec

PeerClose ==
    /\ ~peer_closed
    /\ peer_closed' = TRUE
    /\ UNCHANGED << wire, rpc, raw_len, length, data, outcome, ncalls, nwrites,
                    stream, writes, consumed, bytewise >>
    /\ UNCHANGED not_codec

(***************************************************************************)
(* recv_message, one action per sock.recv call.  recv(n) blocks while the  *)
(* wire is empty and the peer has not closed, and returns between 1 and n  *)
(* of the bytes on the wire otherwise.                                     *)
(***************************************************************************)
\* The writes of ws that begin at or after offset n, with offsets from n.
RECURSIVE writes_from(_, _)
writes_from(ws, n) ==
    IF Len(ws) = 0 THEN <<>>
    ELSE IF Head(ws).at < n THEN writes_from(Tail(ws), n)
    ELSE << [Head(ws) EXCEPT !.at = @ - n] >> \o writes_from(Tail(ws), n)

RecvStart ==
    /\ rpc = "idle"
    /\ ncalls < MaxFrames
    /\ ncalls' = ncalls + 1
    /\ rpc' = "len"
    /\ raw_len' = <<>>
    /\ data' = <<>>
    /\ length' = 0
    /\ outcome' = NoOutcome
    /\ stream' = wire
    /\ writes' = writes_from(writes, consumed)
    /\ consumed' = 0
    /\ bytewise' = TRUE
    /\ UNCHANGED << wire, peer_closed, nwrites >>
    /\ UNCHANGED not_codec

\* raw_len += chunk (line 40)
len_append(chunk) == raw_len \o chunk

RecvLenChunk ==
    /\ rpc = "len"
    /\ \E k \in 1 .. Min(4 - Len(raw_len), Len(wire)) :
        /\ raw_len' = len_append(Take(wire, k))
        /\ wire' = Drop(wire, k)
        /\ consumed' = consumed + k
        /\ bytewise' = (bytewise /\ k = 1)
    /\ IF Len(raw_len') < 4
       THEN UNCHANGED << rpc, length >>
       ELSE rpc' = "body" /\ length' = unpack_I(raw_len')
    /\ UNCHANGED << peer_closed, data, outcome, ncalls, nwrites, stream, writes >>
    /\ UNCHANGED not_codec

\* if not chunk: raise ConnectionError("Socket closed")
RecvEOF(at) ==
    /\ rpc = at
    /\ wire = <<>>
    /\ peer_closed
    /\ outcome' = Raised("ConnectionError")
    /\ rpc' = "raised"
    /\ UNCHANGED << wire, peer_closed, raw_len, length, data, ncalls, nwrites,
                    stream, writes, consumed, bytewise >>
    /\ UNCHANGED not_codec

RecvLenEOF == RecvEOF("len")

\* Mutant: data = chunk, the bytes received before are dropped.
data_overwrite(chunk) == chunk

\* data += chunk (line 49)
data_append(chunk) == data \o chunk

\* Mutant: each recv asks for whatever has arrived, not for what is missing.
RecvBodyChunk_greedy ==
    /\ rpc = "body"
    /\ Len(data) < length
    /\ \E k \in 1 .. Len(wire) :
        /\ data' = data_append(Take(wire, k))
        /\ wire' = Drop(wire, k)
        /\ consumed' = consumed + k
        /\ bytewise' = (bytewise /\ k = 1)
    /\ UNCHANGED << peer_closed, rpc, raw_len, length, outcome, ncalls, nwrites,
                    stream, writes >>
    /\ UNCHANGED not_codec

\* Lines 45-49: one pass of the second loop.
RecvBodyChunk ==
    /\ rpc = "body"
    /\ Len(data) < length
    /\ \E k \in 1 .. Min(length - Len(data), Len(wire)) :
        /\ data' = data_append(Take(wire, k))
        /\ wire' = Drop(wire, k)
        /\ consumed' = consumed + k
        /\ bytewise' = (bytewise /\ k = 1)
    /\ UNCHANGED << peer_closed, rpc, raw_len, length, outcome, ncalls, nwrites,
                    stream, writes >>
    /\ UNCHANGED not_codec

\* Mutant: an empty chunk ends the loop and what has arrived is decoded.
RecvBodyEOF_break ==
    /\ rpc = "body"
    /\ Len(data) < length
    /\ wire = <<>>
    /\ peer_closed
    /\ outcome' = decode_body(data)
    /\ rpc' = IF outcome'.kind = "ok" THEN "idle" ELSE "raised"
    /\ UNCHANGED << wire, peer_closed, raw_len, length, data, ncalls, nwrites,
                    stream, writes, consumed, bytewise >>
    /\ UNCHANGED not_codec

RecvBodyEOF == Len(data) < length /\ RecvEOF("body")

\* Lines 51-54, once the second loop has ended.
RecvDecode ==
    /\ rpc = "body"
    /\ ~(Len(data) < length)
    /\ outcome' = decode_body(data)
    /\ rpc' = IF outcome'.kind = "ok" THEN "idle" ELSE "raised"
    /\ UNCHANGED << wire, peer_closed, raw_len, length, data, ncalls, nwrites,
                    stream, writes, consumed, bytewise >>
    /\ UNCHANGED not_codec

(***************************************************************************)
(* The benchmark tool.  Bounds and input sets.                             *)
(***************************************************************************)
\* The largest --warmup and --iterations tried.
MaxWarmup == 2

MaxIterations == 3

\* Time units a connect and a receive may take; a send takes one.
ConnectTimes == {1}

RecvTimes == {1, 2}

\* The request of lines 63-69, for the command "x", the working directory
\* "/" and PATH "/b".
request_msg ==
    JDict(<< << <<116, 121, 112, 101>>, JStr(<<115, 101, 115, 115, 105, 111, 110, 95, 105, 110, 105, 116>>) >>,
             << <<119, 111, 114, 107, 105, 110, 103, 95, 100, 105, 114>>, JStr(<<47>>) >>,
             << <<101, 110, 118>>, JDict(<< << <<80, 65, 84, 72>>, JStr(<<47, 98>>) >> >>) >>,
             << <<97, 114, 103, 115>>, JList(<< JStr(<<45, 99>>), JStr(<<120>>) >>) >>,
             << <<115, 116, 100, 105, 110, 95, 109, 111, 100, 101>>, JStr(<<110, 117, 108, 108>>) >> >>)

NoSent == [whole |-> FALSE, msg |-> JNone, msg_id |-> 0]

\* What the daemon may answer on a connection: a frame for any message with
\* the request's id 1 or with another id; a frame cut short, then a close;
\* a frame whose payload is not JSON; a frame of declared length 0; nothing.
Responses ==
    { [bytes |-> frame_bytes(m, i), closed |-> FALSE,
       sent |-> [whole |-> TRUE, msg |-> m, msg_id |-> i]] :
          m \in Messages, i \in {1, 2} }
    \cup
    { [bytes |-> Take(frame_bytes(JDict(<<>>), 1), k), closed |-> TRUE, sent |-> NoSent] :
          k \in {0, 2, 6, 9} }
    \cup
    { [bytes |-> pack_I(5) \o pack_I(1) \o <<LBRACE>>, closed |-> FALSE, sent |-> NoSent],
      [bytes |-> pack_I(0), closed |-> FALSE, sent |-> NoSent],
      [bytes |-> <<>>, closed |-> FALSE, sent |-> NoSent] }

(***************************************************************************)
(* The summary of lines 100-111, of the sorted list.  List indices are     *)
(* 0-based in the source and 1-based here.  int(n * 0.95) and              *)
(* int(n * 0.99) are floor(95 n / 100) and floor(99 n / 100) for every n   *)
(* below 2,000,000 (computed with the source's float arithmetic).          *)
(***************************************************************************)
\* Mutant: the list is left in the order of the calls.
unsorted(s) == s

\* times.sort(): the list's values in ascending order, each as many times
\* as it occurs.  The element at place i is the value v with fewer than i
\* elements below it and at least i elements not above it.
sorted(s) ==
    [ i \in 1 .. Len(s) |->
        CHOOSE v \in Range(s) :
            /\ Cardinality({ j \in DOMAIN s : s[j] < v }) < i
            /\ i <= Cardinality({ j \in DOMAIN s : s[j] <= v }) ]

RECURSIVE seq_sum(_)
seq_sum(s) == IF Len(s) = 0 THEN 0 ELSE Head(s) + seq_sum(Tail(s))

\* min(times), max(times): defined for a list that is not empty.
seq_min(s) == CHOOSE x \in Range(s) : \A y \in Range(s) : x <= y

seq_max(s) == CHOOSE x \in Range(s) : \A y \in Range(s) : y <= x

\* Mutant: the lower of the two middle elements of an even-sized list.
median_index_lower(n) == (n - 1) \div 2

\* len(times) // 2
median_index(n) == n \div 2

p95_index(n) == (n * 95) \div 100

p99_index(n) == (n * 99) \div 100

summary(ts) ==
    [ iterations |-> Len(ts),
      times_ms |-> ts,
      min_ms |-> seq_min(ts),
      max_ms |-> seq_max(ts),
      mean_ms |-> [num |-> seq_sum(ts), den |-> Len(ts)],
      median_ms |-> ts[median_index(Len(ts)) + 1],
      p95_ms |-> ts[p95_index(Len(ts)) + 1],
      p99_ms |-> ts[p99_index(Len(ts)) + 1] ]

NoResult ==
    [ iterations |-> 0, times_ms |-> <<>>, min_ms |-> 0, max_ms |-> 0,
      mean_ms |-> [num |-> 0, den |-> 0], median_ms |-> 0, p95_ms |-> 0, p99_ms |-> 0 ]

NoOutput == [format |-> "none", result |-> NoResult]

\* Lines 113-123: --json prints the whole record, the text report every
\* value but the list of times.
printed(json, r) ==
    IF json THEN [format |-> "json", result |-> r]
    ELSE [format |-> "text", result |-> [r EXCEPT !.times_ms = <<>>]]

\* The tool at rest: not started.
HarnessIdle ==
    /\ args_warmup = 0
    /\ args_iterations = 0
    /\ pc = "off"
    /\ warm_i = 0
    /\ iter_i = 0
    /\ times = <<>>
    /\ exc = "none"
    /\ stdout = NoOutput
    /\ stderr = "none"
    /\ exit_status = -1
    /\ epc = "none"
    /\ socks = <<>>
    /\ now = 0
    /\ start = 0
    /\ elapsed = 0
    /\ result = JNone
    /\ request = <<>>
    /\ response = <<>>
    /\ resp_closed = FALSE
    /\ responded = FALSE
    /\ failed_at = 0
    /\ warm_times = <<>>
    /\ meas_times = <<>>
    /\ events = <<>>
    /\ daemon_sent = NoSent

(***************************************************************************)
(* Inputs and pure functions of the comparative benchmark.                 *)
(***************************************************************************)
\* The most runs per test given on the command line (sys.argv[2]).
MaxRuns == 2

\* What time_command may return: -1 for a failed or timed out command, or
\* the elapsed milliseconds.
TimeOutcomes == {-1, 1, 3}

\* The first benchmarks of run_all, each run in rush and then in zsh.
BenchNames == << "Shell startup (exit immediately)", "Simple echo command" >>

Shells == << "rush", "zsh" >>

\* The (name, shell) pairs in the order run_all runs them.
plan == [ i \in 1 .. Len(BenchNames) * Len(Shells) |->
            [ name |-> BenchNames[((i - 1) \div Len(Shells)) + 1],
              shell |-> Shells[((i - 1) % Len(Shells)) + 1] ] ]

None == [ some |-> FALSE, name |-> "", shell |-> "",
          mean_ms |-> [num |-> 0, den |-> 0], min_ms |-> 0, max_ms |-> 0, runs |-> 0 ]

\* Mutant: a benchmark with no successful run still yields a result.
benchmark_result_always(name, shell, ts) ==
    [ some |-> TRUE, name |-> name, shell |-> shell,
      mean_ms |-> [num |-> seq_sum(ts), den |-> Len(ts)],
      min_ms |-> IF ts = <<>> THEN 0 ELSE seq_min(ts),
      max_ms |-> IF ts = <<>> THEN 0 ELSE seq_max(ts),
      runs |-> Len(ts) ]

\* Lines 74-91 of run_benchmark: None when no run succeeded, else the
\* statistics of the successful runs (the mean as sum over count).
benchmark_result(name, shell, ts) ==
    IF ts = <<>> THEN None
    ELSE [ some |-> TRUE, name |-> name, shell |-> shell,
           mean_ms |-> [num |-> seq_sum(ts), den |-> Len(ts)],
           min_ms |-> seq_min(ts),
           max_ms |-> seq_max(ts),
           runs |-> Len(ts) ]

\* Lines 209-213: by_name[name][shell] is the last result of that name and
\* shell in the list.
by_name_shells(rs, name) == { rs[i].shell : i \in { j \in DOMAIN rs : rs[j].name = name } }

by_name(rs, name, shell) ==
    LET at == { j \in DOMAIN rs : rs[j].name = name /\ rs[j].shell = shell }
    IN  rs[CHOOSE j \in at : \A k \in at : k <= j]

\* Lines 216-228: one entry per name that has a result of both shells;
\* speedup = zsh mean / rush mean, as a fraction, 0 when the rush mean is 0.
generate_comparison(rs) ==
    LET names == { rs[i].name : i \in DOMAIN rs }
        both == { n \in names : "rush" \in by_name_shells(rs, n)
                                 /\ "zsh" \in by_name_shells(rs, n) }
    IN  [ n \in both |->
            LET rush_time == by_name(rs, n, "rush").mean_ms
                zsh_time == by_name(rs, n, "zsh").mean_ms
                speedup == IF rush_time.num > 0
                           THEN [num |-> zsh_time.num * rush_time.den,
                                 den |-> zsh_time.den * rush_time.num]
                           ELSE [num |-> 0, den |-> 1]
            IN  [ rush_ms |-> rush_time,
                  zsh_ms |-> zsh_time,
                  speedup |-> speedup,
                  faster |-> IF speedup.num > speedup.den THEN "rush" ELSE "zsh" ] ]

NoComparison == [ n \in {} |-> None ]

NoFile == [ written |-> FALSE, results |-> <<>>, comparison |-> NoComparison ]

\* The comparative benchmark at rest: not started.
CompareIdle ==
    /\ runs = 0
    /\ kpc = "off"
    /\ plan_i = 1
    /\ run_i = 0
    /\ bench_times = <<>>
    /\ results = <<>>
    /\ comparison = NoComparison
    /\ saved = NoFile
    /\ kexit = -1
    /\ attempts = <<>>

InitCodec == CodecIdle /\ HarnessIdle /\ CompareIdle

NextCodec ==
    \/ SendMessage
    \/ PeerRaw
    \/ PeerTruncated
    \/ PeerClose
    \/ RecvStart
    \/ RecvLenChunk
    \/ RecvLenEOF
    \/ RecvBodyChunk
    \/ RecvBodyEOF
    \/ RecvDecode

SpecCodec == InitCodec /\ [][NextCodec]_vars

\* The latest recv_message call has ended (returned or raised).
CallEnded == outcome.kind # "none"

(***************************************************************************)
(* C1.  Round trip: a recv_message call that began where send_message      *)
(* started writing (msg, msg_id), and that has ended, returned exactly     *)
(* that msg and that msg_id.                                               *)
(***************************************************************************)
RoundTrip ==
    \A j \in DOMAIN writes :
        (CallEnded /\ writes[j].kind = "msg" /\ writes[j].at = 0)
            => outcome = Returned(writes[j].msg, writes[j].msg_id)

\* A message with escaped characters and a 4-byte id came back.
RoundTripWitness ==
    /\ CallEnded
    /\ Len(writes) >= 1
    /\ writes[1].kind = "msg"
    /\ writes[1].at = 0
    /\ writes[1].msg = JDict(<< <<K_a, JStr(<<QUOTE, BACKSLASH, NEWLINE>>)>> >>)
    /\ writes[1].msg_id = 2130838527
    /\ outcome.kind = "ok"

(***************************************************************************)
(* C2.  Partial reads: whatever chunks the recv calls returned, an ended   *)
(* recv_message call has the outcome of the call that gets the same bytes  *)
(* in whole reads.                                                         *)
(***************************************************************************)
ChunkingIndependent ==
    CallEnded => outcome = recv_whole(stream, peer_closed).out

\* A call returned a message after receiving its frame one byte per recv.
ChunkingWitness ==
    /\ outcome.kind = "ok"
    /\ outcome.payload # JDict(<<>>)
    /\ bytewise

(***************************************************************************)
(* C3.  Truncation: an ended recv_message call whose stream stopped before *)
(* the 4 length bytes, or before the declared number of body bytes, raised *)
(* ConnectionError (so it returned no message).                            *)
(***************************************************************************)
Truncated ==
    Len(stream) < 4 \/ Len(stream) - 4 < unpack_I(Take(stream, 4))

TruncationDetected ==
    (CallEnded /\ Truncated) => outcome = Raised("ConnectionError")

\* The peer closed after the id and a part of the payload had arrived.
TruncationWitness ==
    /\ rpc = "raised"
    /\ Truncated
    /\ Len(raw_len) = 4
    /\ Len(data) > 4
    /\ Len(data) < length

(***************************************************************************)
(* execute_command (lines 57-74), one action per statement that blocks or  *)
(* that the claims order: socket(), perf_counter(), connect, send_message, *)
(* recv_message, perf_counter(), close, return.                            *)
(***************************************************************************)
LastSock == Len(socks)

\* An exception leaves execute_command: no statement after the raising one
\* runs, so the socket stays as it is.
raise_from(e) ==
    /\ exc' = e
    /\ failed_at' = LastSock
    /\ epc' = "none"
    /\ events' = Append(events, "raise")
    /\ UNCHANGED << args_warmup, args_iterations, pc, warm_i, iter_i, times,
                    stdout, stderr, exit_status, warm_times, meas_times >>
    /\ UNCHANGED << socks, now, start, elapsed, result, request, response,
                    resp_closed, responded, daemon_sent >>
    /\ UNCHANGED not_harness

\* Line 59, entered from a pass of either loop of main (lines 87, 96).
ExecSocket ==
    /\ pc \in {"warmup", "measure"}
    /\ exc = "none"
    /\ epc = "none"
    /\ IF pc = "warmup" THEN warm_i < args_warmup ELSE iter_i < args_iterations
    /\ epc' = "created"
    /\ socks' = Append(socks, "created")
    /\ now' = 0
    /\ events' = <<"socket">>
    /\ UNCHANGED << start, elapsed, result, request, response, resp_closed,
                    responded, daemon_sent >>
    /\ UNCHANGED mvars
    /\ UNCHANGED not_harness

\* Line 60: start = time.perf_counter()
ExecStartClock ==
    /\ epc = "created"
    /\ epc' = "started"
    /\ start' = now
    /\ events' = Append(events, "start")
    /\ UNCHANGED << socks, now, elapsed, result, request, response, resp_closed,
                    responded, daemon_sent >>
    /\ UNCHANGED mvars
    /\ UNCHANGED not_harness

\* Mutant: the connection is made before the clock is started.
ExecConnect_before_clock ==
    /\ epc = "created"
    /\ socks[LastSock] = "created"
    /\ socks' = [socks EXCEPT ![LastSock] = "connected"]
    /\ \E d \in ConnectTimes : now' = now + d
    /\ events' = Append(events, "connect")
    /\ UNCHANGED << epc, start, elapsed, result, request, response, resp_closed,
                    responded, daemon_sent >>
    /\ UNCHANGED mvars
    /\ UNCHANGED not_harness

\* Line 61: sock.connect(socket_path)
ExecConnect ==
    /\ epc = "started"
    /\ epc' = "connected"
    /\ socks' = [socks EXCEPT ![LastSock] = "connected"]
    /\ \E d \in ConnectTimes : now' = now + d
    /\ events' = Append(events, "connect")
    /\ UNCHANGED << start, elapsed, result, request, response, resp_closed,
                    responded, daemon_sent >>
    /\ UNCHANGED mvars
    /\ UNCHANGED not_harness

\* Line 61 when no daemon listens or the socket path is absent.
ExecConnectRefused ==
    /\ epc = "started"
    /\ raise_from("ConnectionRefusedError")

\* Lines 63-70: send_message(sock, msg) with the default msg_id = 1.
ExecSend ==
    /\ epc = "connected"
    /\ epc' = "sent"
    /\ request' = frame_bytes(request_msg, 1)
    /\ now' = now + 1
    /\ events' = Append(events, "send")
    /\ UNCHANGED << socks, start, elapsed, result, response, resp_closed,
                    responded, daemon_sent >>
    /\ UNCHANGED mvars
    /\ UNCHANGED not_harness

\* Line 70 when the daemon has closed the connection: sendall raises.
ExecSendFails ==
    /\ epc = "connected"
    /\ raise_from("BrokenPipeError")

\* The daemon answers the request (or closes, or stays silent).
DaemonRespond ==
    /\ epc = "sent"
    /\ ~responded
    /\ \E r \in Responses :
        /\ response' = r.bytes
        /\ resp_closed' = r.closed
        /\ daemon_sent' = r.sent
    /\ responded' = TRUE
    /\ UNCHANGED << epc, socks, now, start, elapsed, result, request, events >>
    /\ UNCHANGED mvars
    /\ UNCHANGED not_harness

\* What recv_message does with the daemon's answer.
received == recv_whole(response, resp_closed).out

\* Mutant: a response whose id differs from the request's is refused.
ExecRecv_checked ==
    /\ epc = "sent"
    /\ responded
    /\ received.kind = "ok"
    /\ \/ /\ received.msg_id = unpack_I(SubSeq(request, 5, 8))
          /\ epc' = "received"
          /\ result' = received.payload
          /\ \E d \in RecvTimes : now' = now + d
          /\ events' = Append(events, "recv")
          /\ UNCHANGED << socks, start, elapsed, request, response, resp_closed,
                          responded, daemon_sent >>
          /\ UNCHANGED mvars
          /\ UNCHANGED not_harness
       \/ /\ received.msg_id # unpack_I(SubSeq(request, 5, 8))
          /\ raise_from("ValueError")

\* Line 71: result, _ = recv_message(sock)
ExecRecv ==
    /\ epc = "sent"
    /\ responded
    /\ received.kind = "ok"
    /\ epc' = "received"
    /\ result' = received.payload
    /\ \E d \in RecvTimes : now' = now + d
    /\ events' = Append(events, "recv")
    /\ UNCHANGED << socks, start, elapsed, request, response, resp_closed,
                    responded, daemon_sent >>
    /\ UNCHANGED mvars
    /\ UNCHANGED not_harness

\* Line 71 when recv_message raises.
ExecRecvRaises ==
    /\ epc = "sent"
    /\ responded
    /\ received.kind \in {"ConnectionError", "struct.error", "ValueError"}
    /\ raise_from(received.kind)

\* Line 72: elapsed = (time.perf_counter() - start) * 1000
ExecStopClock ==
    /\ epc = "received"
    /\ epc' = "stopped"
    /\ elapsed' = now - start
    /\ events' = Append(events, "stop")
    /\ UNCHANGED << socks, now, start, result, request, response, resp_closed,
                    responded, daemon_sent >>
    /\ UNCHANGED mvars
    /\ UNCHANGED not_harness

\* Line 73: sock.close()
ExecClose ==
    /\ epc = "stopped"
    /\ epc' = "closed"
    /\ socks' = [socks EXCEPT ![LastSock] = "closed"]
    /\ events' = Append(events, "close")
    /\ UNCHANGED << now, start, elapsed, result, request, response, resp_closed,
                    responded, daemon_sent >>
    /\ UNCHANGED mvars
    /\ UNCHANGED not_harness

\* The locals of a call that has returned.
CallGone ==
    /\ epc' = "none"
    /\ now' = 0
    /\ start' = 0
    /\ elapsed' = 0
    /\ result' = JNone
    /\ request' = <<>>
    /\ response' = <<>>
    /\ resp_closed' = FALSE
    /\ responded' = FALSE
    /\ daemon_sent' = NoSent
    /\ events' = Append(events, "return")
    /\ UNCHANGED socks

\* Mutant: the warmup loop appends its elapsed times too.
ExecReturn_records_warmup ==
    /\ epc = "closed"
    /\ CallGone
    /\ times' = Append(times, elapsed)
    /\ IF pc = "warmup"
       THEN /\ warm_i' = warm_i + 1
            /\ warm_times' = Append(warm_times, elapsed)
            /\ UNCHANGED << iter_i, meas_times >>
       ELSE /\ iter_i' = iter_i + 1
            /\ meas_times' = Append(meas_times, elapsed)
            /\ UNCHANGED << warm_i, warm_times >>
    /\ UNCHANGED << args_warmup, args_iterations, pc, exc, stdout, stderr,
                    exit_status, failed_at >>
    /\ UNCHANGED not_harness

\* Line 74, and the rest of the loop pass in main: line 89 drops the pair,
\* lines 97-98 append the elapsed time.
ExecReturn ==
    /\ epc = "closed"
    /\ CallGone
    /\ IF pc = "warmup"
       THEN /\ warm_i' = warm_i + 1
            /\ warm_times' = Append(warm_times, elapsed)
            /\ UNCHANGED << iter_i, times, meas_times >>
       ELSE /\ iter_i' = iter_i + 1
            /\ times' = Append(times, elapsed)
            /\ meas_times' = Append(meas_times, elapsed)
            /\ UNCHANGED << warm_i, warm_times >>
    /\ UNCHANGED << args_warmup, args_iterations, pc, exc, stdout, stderr,
                    exit_status, failed_at >>
    /\ UNCHANGED not_harness

(***************************************************************************)
(* main (lines 77-123).                                                    *)
(***************************************************************************)
\* The process ends: the sockets it still holds are released with it.
exit(status) ==
    /\ pc' = "exited"
    /\ exit_status' = status
    /\ socks' = [i \in DOMAIN socks |->
                    IF socks[i] = "closed" THEN "closed" ELSE "released"]

\* Mutant: the measurement loop may start before the warmup loop is over.
WarmupDone_early ==
    /\ pc = "warmup"
    /\ exc = "none"
    /\ epc = "none"
    /\ warm_i <= args_warmup
    /\ pc' = "measure"
    /\ times' = <<>>
    /\ UNCHANGED << args_warmup, args_iterations, warm_i, iter_i, exc, stdout,
                    stderr, exit_status, failed_at, warm_times, meas_times >>
    /\ UNCHANGED evars
    /\ UNCHANGED not_harness

\* Lines 94-95: the warmup loop is over.
WarmupDone ==
    /\ pc = "warmup"
    /\ exc = "none"
    /\ epc = "none"
    /\ warm_i = args_warmup
    /\ pc' = "measure"
    /\ times' = <<>>
    /\ UNCHANGED << args_warmup, args_iterations, warm_i, iter_i, exc, stdout,
                    stderr, exit_status, failed_at, warm_times, meas_times >>
    /\ UNCHANGED evars
    /\ UNCHANGED not_harness

\* Lines 90-92: except Exception: print to stderr, sys.exit(1).
WarmupFailed ==
    /\ pc = "warmup"
    /\ exc # "none"
    /\ stderr' = "Warmup failed"
    /\ exit(1)
    /\ UNCHANGED << args_warmup, args_iterations, warm_i, iter_i, times, exc,
                    stdout, failed_at, warm_times, meas_times >>
    /\ UNCHANGED << epc, now, start, elapsed, result, request, response,
                    resp_closed, responded, events, daemon_sent >>
    /\ UNCHANGED not_harness

\* Mutant: the measurement loop drops a failed call and goes on.
MeasureFailed_continue ==
    /\ pc = "measure"
    /\ exc # "none"
    /\ exc' = "none"
    /\ iter_i' = iter_i + 1
    /\ UNCHANGED << args_warmup, args_iterations, pc, warm_i, times, stdout,
                    stderr, exit_status, failed_at, warm_times, meas_times >>
    /\ UNCHANGED evars
    /\ UNCHANGED not_harness

\* Line 97 raises and nothing catches it: traceback, exit status 1.
MeasureFailed ==
    /\ pc = "measure"
    /\ exc # "none"
    /\ stderr' = "Traceback"
    /\ exit(1)
    /\ UNCHANGED << args_warmup, args_iterations, warm_i, iter_i, times, exc,
                    stdout, failed_at, warm_times, meas_times >>
    /\ UNCHANGED << epc, now, start, elapsed, result, request, response,
                    resp_closed, responded, events, daemon_sent >>
    /\ UNCHANGED not_harness

\* Lines 100-123: sort, summarise, print.  min() of an empty list raises
\* ValueError, which nothing catches.
Summarise ==
    /\ pc = "measure"
    /\ exc = "none"
    /\ epc = "none"
    /\ iter_i = args_iterations
    /\ times' = sorted(times)
    /\ IF Len(times) = 0
       THEN /\ exc' = "ValueError"
            /\ stderr' = "Traceback"
            /\ exit(1)
            /\ UNCHANGED stdout
       ELSE /\ \E json \in BOOLEAN : stdout' = printed(json, summary(times'))
            /\ exit(0)
            /\ UNCHANGED << exc, stderr >>
    /\ UNCHANGED << args_warmup, args_iterations, warm_i, iter_i, failed_at,
                    warm_times, meas_times >>
    /\ UNCHANGED << epc, now, start, elapsed, result, request, response,
                    resp_closed, responded, events, daemon_sent >>
    /\ UNCHANGED not_harness

\* Ctrl-C while main is in one of its loops: KeyboardInterrupt is not an
\* Exception, so line 90 does not catch it; the process ends with a
\* traceback and the status of a process killed by SIGINT.
Interrupt ==
    /\ pc \in {"warmup", "measure"}
    /\ exc' = "KeyboardInterrupt"
    /\ stderr' = "Traceback"
    /\ epc' = "none"
    /\ exit(130)
    /\ UNCHANGED << args_warmup, args_iterations, warm_i, iter_i, times,
                    stdout, failed_at, warm_times, meas_times >>
    /\ UNCHANGED << now, start, elapsed, result, request, response,
                    resp_closed, responded, events, daemon_sent >>
    /\ UNCHANGED not_harness

\* main starts, with the arguments parsed.
Init ==
    /\ CodecIdle
    /\ CompareIdle
    /\ args_warmup \in 0 .. MaxWarmup
    /\ args_iterations \in 0 .. MaxIterations
    /\ pc = "warmup"
    /\ warm_i = 0
    /\ iter_i = 0
    /\ times = <<>>
    /\ exc = "none"
    /\ stdout = NoOutput
    /\ stderr = "none"
    /\ exit_status = -1
    /\ epc = "none"
    /\ socks = <<>>
    /\ now = 0
    /\ start = 0
    /\ elapsed = 0
    /\ result = JNone
    /\ request = <<>>
    /\ response = <<>>
    /\ resp_closed = FALSE
    /\ responded = FALSE
    /\ failed_at = 0
    /\ warm_times = <<>>
    /\ meas_times = <<>>
    /\ events = <<>>
    /\ daemon_sent = NoSent

Next ==
    \/ ExecSocket
    \/ ExecStartClock
    \/ ExecConnect
    \/ ExecConnectRefused
    \/ ExecSend
    \/ ExecSendFails
    \/ DaemonRespond
    \/ ExecRecv
    \/ ExecRecvRaises
    \/ ExecStopClock
    \/ ExecClose
    \/ ExecReturn
    \/ WarmupDone
    \/ WarmupFailed
    \/ MeasureFailed
    \/ Summarise
    \/ Interrupt

Spec == Init /\ [][Next]_vars

(***************************************************************************)
(* Claims about execute_command and main, checked under Spec.              *)
(***************************************************************************)
\* execute_command holds a response it got from recv_message.
HoldsResponse == epc \in {"received", "stopped", "closed"}

\* The correlation id of the request frame the call sent.
SentId == unpack_I(SubSeq(request, 5, 8))

\* C4 as stated: execute_command returns a response only when the id of the
\* received response frame equals the id sent in the request frame; a frame
\* with another id is never delivered as the result.
CorrelatedResponse ==
    HoldsResponse => received.msg_id = SentId

\* C4 as amended: execute_command returns the payload of the first whole
\* response frame received on the connection it opened, whatever correlation
\* id that frame carries: the request goes out with id 1, the response's id
\* is read and dropped, and a call that got a whole well-formed frame never
\* fails at the receive.
FirstFrameDelivered ==
    /\ HoldsResponse =>
          /\ SentId = 1
          /\ daemon_sent.whole
          /\ result = daemon_sent.msg
    /\ (failed_at # 0 /\ responded) => ~daemon_sent.whole

\* A response frame with id 2 was delivered as the result of request 1.
OtherIdDelivered ==
    /\ epc = "closed"
    /\ SentId = 1
    /\ daemon_sent.whole
    /\ daemon_sent.msg_id = 2
    /\ result = daemon_sent.msg
    /\ result # JDict(<<>>)

\* C5: once a call to execute_command has failed, in warmup or in
\* measurement, no further call is made, nothing is printed on stdout, and
\* the run ends with a non-zero status: a failure on measurement call N is
\* never reported as a run over N-1 samples.
FatalOnFailure ==
    failed_at # 0 =>
        /\ Len(socks) = failed_at
        /\ epc = "none"
        /\ exc # "none"
        /\ stdout = NoOutput
        /\ Len(times) = iter_i
        /\ pc \in {"warmup", "measure", "exited"}
        /\ pc = "exited" => exit_status = IF exc = "KeyboardInterrupt" THEN 130 ELSE 1

\* A measurement call failed after at least one sample was collected, and
\* the run has ended.
FailedAfterSamples ==
    /\ failed_at # 0
    /\ pc = "exited"
    /\ Len(meas_times) >= 1
    /\ failed_at = args_warmup + Len(meas_times) + 1

\* C6 as stated: the tool exits non-zero if some warmup or measurement call
\* failed and with status zero in every run in which no call failed, for
\* every warmup count >= 0 and iteration count >= 0.
ExitStatus ==
    (pc = "exited" /\ exc # "KeyboardInterrupt") => (exit_status # 0 <=> failed_at # 0)

\* C7: the sample and every summary value printed hold only elapsed times
\* of measurement calls: the sample is the measurement calls' times (in
\* some order), one per call, and no warmup time is in it.
WarmupIsolation ==
    /\ sorted(times) = sorted(meas_times)
    /\ Len(times) = iter_i
    /\ pc = "warmup" => times = <<>>
    /\ stdout.format # "none" =>
          /\ stdout.result.iterations = Len(meas_times)
          /\ stdout.result.times_ms \in {<<>>, sorted(meas_times)}
          /\ { stdout.result.min_ms, stdout.result.max_ms,
               stdout.result.median_ms, stdout.result.p95_ms,
               stdout.result.p99_ms } \subseteq Range(meas_times)
          /\ stdout.result.mean_ms = [num |-> seq_sum(meas_times), den |-> Len(meas_times)]

\* A run printed its summary after a warmup call slower than every
\* measurement call.
SlowWarmupLeftOut ==
    /\ stdout.format = "json"
    /\ Len(warm_times) >= 1
    /\ \A i \in DOMAIN warm_times : warm_times[i] > stdout.result.max_ms
    /\ Len(meas_times) >= 2

\* C10 as stated: the connection a call opened is closed by the time the
\* call ends, whether it returned or failed; no connection of an earlier
\* call remains open.
ConnectionClosed ==
    \A i \in DOMAIN socks :
        (i < Len(socks) \/ epc = "none") => socks[i] # "connected"

(***************************************************************************)
(* The summary alone: main at the end of its measurement loop, for every   *)
(* small sample and the two samples the documentation works through.       *)
(***************************************************************************)
MaxSample == 4
MaxLatency == 3

SampleHundred == [ i \in 1 .. 100 |-> i ]

Samples ==
    UNION { [ 1 .. n -> 1 .. MaxLatency ] : n \in 1 .. MaxSample }
    \cup { SampleHundred, [ i \in 1 .. 100 |-> 101 - i ], << 5, 1, 3, 2, 4 >> }

InitSummary ==
    /\ CodecIdle
    /\ CompareIdle
    /\ times \in Samples
    /\ meas_times = times
    /\ args_warmup = 0
    /\ args_iterations = Len(times)
    /\ pc = "measure"
    /\ warm_i = 0
    /\ iter_i = Len(times)
    /\ exc = "none"
    /\ stdout = NoOutput
    /\ stderr = "none"
    /\ exit_status = -1
    /\ epc = "none"
    /\ socks = [ i \in 1 .. Len(times) |-> "closed" ]
    /\ now = 0
    /\ start = 0
    /\ elapsed = 0
    /\ result = JNone
    /\ request = <<>>
    /\ response = <<>>
    /\ resp_closed = FALSE
    /\ responded = FALSE
    /\ failed_at = 0
    /\ warm_times = <<>>
    /\ events = << "socket", "start", "connect", "send", "recv", "stop", "close", "return" >>
    /\ daemon_sent = NoSent

NextSummary == Summarise

SpecSummary == InitSummary /\ [][NextSummary]_vars

\* s is in ascending order.
Ascending(s) == \A i \in 1 .. Len(s) - 1 : s[i] <= s[i + 1]

\* How many times v occurs in s.
Occurrences(s, v) == Cardinality({ i \in DOMAIN s : s[i] = v })

\* s and t hold the same values the same number of times.
SameSample(s, t) ==
    /\ Len(s) = Len(t)
    /\ \A v \in Range(s) \cup Range(t) : Occurrences(s, v) = Occurrences(t, v)

\* The element of the sorted list s at 0-based index floor(pct * n / 100),
\* an index within 0 .. n-1.
AtFloor(s, pct, v) ==
    \E k \in 0 .. Len(s) - 1 :
        /\ 100 * k <= pct * Len(s)
        /\ pct * Len(s) < 100 * (k + 1)
        /\ v = s[k + 1]

\* C8: for a sample of n >= 1 latencies, after the ascending sort the
\* summary reports min = element 0, max = element n-1, median = element
\* floor(n/2), p95 = element floor(0.95 n), p99 = element floor(0.99 n)
\* (0-based), every index within 0 .. n-1; for the sample 1..100 p95 = 96 and
\* p99 = 100, and for [5,1,3,2,4] min = 1, max = 5, median = 3.
SummaryIndexing ==
    stdout.format # "none" =>
        LET n == Len(meas_times)
            r == stdout.result
        IN  /\ n >= 1
            /\ Ascending(times)
            /\ SameSample(times, meas_times)
            /\ r.iterations = n
            /\ r.min_ms = times[1]
            /\ r.max_ms = times[n]
            /\ AtFloor(times, 50, r.median_ms)
            /\ AtFloor(times, 95, r.p95_ms)
            /\ AtFloor(times, 99, r.p99_ms)
            /\ Range(meas_times) = 1 .. 100 =>
                  /\ r.p95_ms = 96
                  /\ r.p99_ms = 100
                  /\ r.median_ms = 51
            /\ meas_times = << 5, 1, 3, 2, 4 >> =>
                  /\ r.min_ms = 1
                  /\ r.max_ms = 5
                  /\ r.median_ms = 3
                  /\ r.mean_ms = [num |-> 15, den |-> 5]

\* The summary of the sample 100, 99, .. 1 was printed.
HundredSummarised ==
    /\ stdout.format = "json"
    /\ meas_times = [ i \in 1 .. 100 |-> 101 - i ]
    /\ stdout.result.times_ms = SampleHundred
    /\ stdout.result.p95_ms = 96
    /\ stdout.result.p99_ms = 100

(***************************************************************************)
(* The comparative benchmark: run_all runs each benchmark of the plan,     *)
(* then print_report and save_json.                                        *)
(***************************************************************************)
\* Lines 70-73: one pass of run_benchmark's loop.
TimeCommand ==
    /\ kpc = "running"
    /\ plan_i <= Len(plan)
    /\ run_i < runs
    /\ \E t \in TimeOutcomes :
          bench_times' = IF t > 0 THEN Append(bench_times, t) ELSE bench_times
    /\ run_i' = run_i + 1
    /\ UNCHANGED << runs, kpc, plan_i, results, comparison, saved, kexit, attempts >>
    /\ UNCHANGED not_compare

\* Lines 75-91, and the caller's "if result: self.results.append(result)".
RunBenchmarkEnd ==
    /\ kpc = "running"
    /\ plan_i <= Len(plan)
    /\ run_i = runs
    /\ LET r == benchmark_result(plan[plan_i].name, plan[plan_i].shell, bench_times)
       IN  results' = IF r.some THEN Append(results, r) ELSE results
    /\ attempts' = Append(attempts, [ name |-> plan[plan_i].name,
                                      shell |-> plan[plan_i].shell,
                                      succeeded |-> Len(bench_times) ])
    /\ plan_i' = plan_i + 1
    /\ run_i' = 0
    /\ bench_times' = <<>>
    /\ UNCHANGED << runs, kpc, comparison, saved, kexit >>
    /\ UNCHANGED not_compare

\* Lines 232-273: print_report.  statistics.mean of an empty comparison
\* raises StatisticsError, which main catches (lines 331-333): exit 1.
PrintReport ==
    /\ kpc = "running"
    /\ plan_i > Len(plan)
    /\ comparison' = generate_comparison(results)
    /\ IF DOMAIN comparison' = {}
       THEN kpc' = "exited" /\ kexit' = 1
       ELSE kpc' = "reported" /\ UNCHANGED kexit
    /\ UNCHANGED << runs, plan_i, run_i, bench_times, results, saved, attempts >>
    /\ UNCHANGED not_compare

\* Lines 275-291: save_json writes the raw results and the comparison.
SaveJson ==
    /\ kpc = "reported"
    /\ saved' = [ written |-> TRUE, results |-> results,
                  comparison |-> generate_comparison(results) ]
    /\ kpc' = "exited"
    /\ kexit' = 0
    /\ UNCHANGED << runs, plan_i, run_i, bench_times, results, comparison, attempts >>
    /\ UNCHANGED not_compare

\* Mutant: the handler saves what was collected before it returns.
CompareInterrupt_saves ==
    /\ kpc = "running"
    /\ plan_i <= Len(plan)
    /\ kpc' = "interrupted"
    /\ kexit' = 0
    /\ saved' = [ written |-> TRUE, results |-> results,
                  comparison |-> generate_comparison(results) ]
    /\ UNCHANGED << runs, plan_i, run_i, bench_times, results, comparison, attempts >>
    /\ UNCHANGED not_compare

\* Lines 306-308: Ctrl-C inside one of the benchmark groups; run_all prints
\* a notice and returns before print_report and save_json, and main ends.
CompareInterrupt ==
    /\ kpc = "running"
    /\ plan_i <= Len(plan)
    /\ kpc' = "interrupted"
    /\ kexit' = 0
    /\ UNCHANGED << runs, plan_i, run_i, bench_times, results, comparison, saved,
                    attempts >>
    /\ UNCHANGED not_compare

InitCompare ==
    /\ CodecIdle
    /\ HarnessIdle
    /\ runs \in 0 .. MaxRuns
    /\ kpc = "running"
    /\ plan_i = 1
    /\ run_i = 0
    /\ bench_times = <<>>
    /\ results = <<>>
    /\ comparison = NoComparison
    /\ saved = NoFile
    /\ kexit = -1
    /\ attempts = <<>>

NextCompare ==
    \/ TimeCommand
    \/ RunBenchmarkEnd
    \/ PrintReport
    \/ SaveJson
    \/ CompareInterrupt

SpecCompare == InitCompare /\ [][NextCompare]_vars

\* Benchmark i of the plan had no successful run while the other executor's
\* benchmark j of the same name had one.
OneSideFailed(i, j) ==
    /\ attempts[i].name = attempts[j].name
    /\ attempts[i].shell # attempts[j].shell
    /\ attempts[i].succeeded = 0
    /\ attempts[j].succeeded > 0

\* The list rs holds a result of the benchmark that attempt j ran.
HasResult(rs, j) ==
    \E k \in DOMAIN rs : /\ rs[k].name = attempts[j].name
                         /\ rs[k].shell = attempts[j].shell
                         /\ rs[k].runs = attempts[j].succeeded

\* C9: if every run of one executor failed for a benchmark name X while the
\* other executor succeeded, X is not a key of the comparison that
\* generate_comparison produced (printed or saved), and the succeeding
\* executor's result for X is in the raw results list.
ComparisonExclusion ==
    (kpc \in {"reported", "exited"}) =>
        \A i, j \in DOMAIN attempts :
            OneSideFailed(i, j) =>
                /\ attempts[i].name \notin DOMAIN comparison
                /\ HasResult(results, j)
                /\ \A k \in DOMAIN results :
                      results[k].name = attempts[i].name => results[k].shell = attempts[j].shell
                /\ saved.written =>
                      /\ attempts[i].name \notin DOMAIN saved.comparison
                      /\ HasResult(saved.results, j)

\* A file was saved in which one benchmark is compared and the other, whose
\* rush runs all failed, is left out of the comparison but not of the results.
ExcludedButSaved ==
    /\ saved.written
    /\ DOMAIN saved.comparison = { BenchNames[1] }
    /\ \E i, j \in DOMAIN attempts :
          /\ OneSideFailed(i, j)
          /\ attempts[i].name = BenchNames[2]
          /\ attempts[i].shell = "rush"
          /\ HasResult(saved.results, j)

(***************************************************************************)
(* Claims about the order of the calls and of the steps in a call.         *)
(***************************************************************************)
\* The sockets that are open.
OpenSocks == { i \in DOMAIN socks : socks[i] \in {"created", "connected"} }

\* C11: all warmup calls have completed before the first measurement call
\* starts; a call starts only after the call before it has received its
\* response, closed its connection and had its latency recorded; at no
\* point is more than one connection open.
SequentialPhases ==
    /\ Cardinality(OpenSocks) <= 1
    /\ \A i \in 1 .. Len(socks) - 1 : socks[i] = "closed"
    /\ pc = "measure" =>
          /\ warm_i = args_warmup
          /\ Len(warm_times) = args_warmup
    /\ Len(meas_times) > 0 => Len(warm_times) = args_warmup
    /\ epc # "none" => Len(warm_times) + Len(meas_times) = Len(socks) - 1
    /\ (epc = "none" /\ exc = "none") => Len(warm_times) + Len(meas_times) = Len(socks)

\* A measurement call has its request in flight after two warmup calls and
\* a measurement call before it.
SecondMeasurementInFlight ==
    /\ pc = "measure"
    /\ epc = "sent"
    /\ Len(warm_times) = 2
    /\ Len(meas_times) >= 1
    /\ OpenSocks = { Len(socks) }

\* The steps of a call that returns, in the order of lines 59-74.
CallOrder == << "socket", "start", "connect", "send", "recv", "stop", "close", "return" >>

\* s is the first steps of CallOrder, in order.
StartsCallOrder(s) ==
    /\ Len(s) <= Len(CallOrder)
    /\ \A i \in DOMAIN s : s[i] = CallOrder[i]

\* C12: inside one execute_command call the steps occur in the order start
\* clock, connect, send the one request frame, receive the whole response
\* frame, stop clock, close; a call that fails stops where it failed.  The
\* measured interval is the time from before the connect to after the
\* receive, and is fixed before the close.
ClockOrdering ==
    /\ \/ StartsCallOrder(events)
       \/ /\ events # <<>>
          /\ events[Len(events)] = "raise"
          /\ StartsCallOrder(SubSeq(events, 1, Len(events) - 1))
          /\ Len(events) - 1 \in 2 .. 4
    /\ epc # "none" =>
          /\ ("start" \in Range(events)) => start = 0
          /\ ("connect" \in Range(events)) <=> (socks[LastSock] \in {"connected", "closed"})
          /\ ("send" \in Range(events)) <=> (request = frame_bytes(request_msg, 1))
          /\ ("recv" \in Range(events)) <=> (result # JNone)
          /\ ("recv" \in Range(events)) => (received.kind = "ok" /\ now >= start + 3)
          /\ ("stop" \in Range(events)) => (elapsed = now - start /\ elapsed >= 3)
          /\ ("close" \in Range(events)) <=> (socks[LastSock] = "closed")

\* A measurement call went through every step and returned.
WholeCallDone ==
    /\ events = CallOrder
    /\ pc = "measure"
    /\ Len(meas_times) = 1

\* C13: whenever the tool prints a result, the sample is in ascending
\* order and holds the elapsed times of the measurement calls, each once
\* per call (none dropped, none twice), and the iteration count printed is
\* the sample's length and the configured iteration count.
SampleComplete ==
    stdout.format # "none" =>
        /\ Ascending(times)
        /\ SameSample(times, meas_times)
        /\ stdout.format = "json" => stdout.result.times_ms = times
        /\ stdout.result.iterations = Len(times)
        /\ stdout.result.iterations = args_iterations
        /\ failed_at = 0

\* A JSON result was printed for a run whose first measurement call was
\* slower than its second.
UnorderedSampleSorted ==
    /\ stdout.format = "json"
    /\ Len(meas_times) >= 2
    /\ meas_times[1] > meas_times[2]
    /\ stdout.result.times_ms # meas_times

(***************************************************************************)
(* A run of either tool, for the claim that covers both.                   *)
(***************************************************************************)
InitTools == Init \/ InitCompare

NextTools == Next \/ NextCompare

SpecTools == InitTools /\ [][NextTools]_vars

\* C14: if an interrupt arrives while benchmark calls are still being
\* issued (warmup or measurement of the daemon tool, a benchmark group of
\* run_all), no report, summary or result file is produced from the calls
\* completed so far.
Cancellation ==
    /\ exc = "KeyboardInterrupt" =>
          /\ pc = "exited"
          /\ stdout = NoOutput
          /\ exit_status # 0
    /\ kpc = "interrupted" =>
          /\ comparison = NoComparison
          /\ ~saved.written

\* run_all was interrupted with both results of the first benchmark
\* collected, and nothing was reported or saved.
InterruptedWithResults ==
    /\ kpc = "interrupted"
    /\ Len(results) = 2
    /\ generate_comparison(results) # NoComparison
    /\ saved = NoFile

(***************************************************************************)
(* Claims about what recv_message takes from the stream.                   *)
(***************************************************************************)
\* What the current call has taken is the first bytes of the stream since
\* it began, never more than the length field and the declared body, and
\* a call that returned took exactly 4 + length bytes.
ConsumedExactly ==
    /\ consumed <= Len(stream)
    /\ wire = Drop(stream, consumed)
    /\ rpc \in {"len", "body"} =>
          /\ raw_len \o data = Take(stream, consumed)
          /\ Len(raw_len) <= 4
          /\ rpc = "body" => (Len(raw_len) = 4 /\ Len(data) <= length)
    /\ outcome.kind = "ok" =>
          /\ length = unpack_I(Take(stream, 4))
          /\ consumed = 4 + length
          /\ \A j \in DOMAIN writes :
                (j >= 2 /\ writes[1].kind = "msg" /\ writes[1].at = 0)
                    => writes[j].at >= consumed

\* A call that begins after a call that returned a message begins at the
\* first byte of the frame written right after that message's frame.
NextFrameLeft ==
    (/\ rpc = "idle"
     /\ rpc' = "len"
     /\ outcome.kind = "ok"
     /\ Len(writes) >= 2
     /\ writes[1].kind = "msg"
     /\ writes[1].at = 0
     /\ writes[2].kind = "msg")
        => /\ writes'[1] = [writes[2] EXCEPT !.at = 0]
           /\ Take(stream', Len(frame_bytes(writes[2].msg, writes[2].msg_id)))
                 = frame_bytes(writes[2].msg, writes[2].msg_id)

\* C15: a recv_message that returns has taken exactly 4 + L bytes from the
\* stream, L the declared length; no recv asks for more than the current
\* frame still misses; the bytes after the frame stay unread, so the call
\* after it begins at the next frame, and two frames sent back to back come
\* out of two calls in order, however the bytes are chunked.
ExactConsumption ==
    /\ []ConsumedExactly
    /\ [][NextFrameLeft]_vars
    /\ [](\A j \in DOMAIN writes :
            (ncalls = 2 /\ CallEnded /\ writes[j].kind = "msg" /\ writes[j].at = 0)
                => outcome = Returned(writes[j].msg, writes[j].msg_id))

\* The second of two calls returned the second of two frames written,
\* reading one byte at a time and leaving nothing on the stream.
SecondFrameDecoded ==
    /\ ncalls = 2
    /\ nwrites = 2
    /\ outcome.kind = "ok"
    /\ bytewise
    /\ Len(writes) = 1
    /\ writes[1].kind = "msg"
    /\ writes[1].at = 0
    /\ writes[1].msg # JDict(<<>>)
    /\ consumed = Len(stream)
    /\ wire = <<>>

\* The length field the current call read declares a body shorter than a
\* correlation id.
DeclaredUndersized ==
    /\ Len(stream) >= 4
    /\ unpack_I(Take(stream, 4)) < 4

\* C16 as stated: when the length field declares L < 4 (L = 0 included),
\* recv_message never returns a pair; the call ends in a failure, and the
\* failure is a closed connection (ConnectionError) or a malformed payload
\* (the ValueError of json.loads), not any other error.
UndersizedFrame ==
    (CallEnded /\ DeclaredUndersized) =>
        outcome.kind \in {"ConnectionError", "ValueError"}

=============================================================================
